---- MODULE Spec2Model ----
(***************************************************************************)
(* Shopify MCP gateway: the tool registry (index.ts), the operation       *)
(* descriptors (tools/*.ts) and the life of one tool invocation.          *)
(*                                                                         *)
(* The top-level script of index.ts is synchronous: configuration check,  *)
(* client creation, the initialize() calls, the server.tool()             *)
(* registrations and server.connect().  Each statement is one step.       *)
(* A tool invocation is an async function: it runs up to its single       *)
(* `await shopifyClient.request(...)`, suspends, and resumes when the      *)
(* remote answers or the transport fails.                                  *)
(***************************************************************************)
EXTENDS Integers, Sequences, FiniteSets, TLC

VARIABLES
    pc,             \* position of the index.ts top-level script
    idx,            \* next entry of InitOrder / RegOrder to process
    config,         \* [token, domain]: which settings argv/env supply
    resolved,       \* the module "./tools/getProductMetafields.js" resolves to
    paging,         \* a caller following end cursors through a list tool
    exitCode,       \* 0 while running, 1 after process.exit(1)
    clientCreated,  \* the GraphQLClient of index.ts exists
    shopifyClient,  \* per descriptor module: the module-level `let shopifyClient`
    initCalls,      \* per descriptor: number of initialize() calls made
    registry,       \* names registered with the protocol runtime, in order
    inv             \* per invocation slot: the state of that invocation

vars == <<pc, idx, config, resolved, paging, exitCode, clientCreated, shopifyClient, initCalls,
          registry, inv>>

(***************************************************************************)
(* Bounds of the model.                                                    *)
(***************************************************************************)
MaxErrs == 2   \* longest user-error list a remote response carries
MaxList == 2   \* longest caller-supplied list of sub-changes
MaxPage == 2    \* most nodes a remote response page carries
MaxDepth == 2   \* deepest nesting below a top-level menu item
MaxBreadth == 2 \* most siblings in one items list of a menu
MaxBatch == 2   \* most sub-changes submitted in one batching call
MaxFields == 2  \* most fields a returned metaobject carries
MaxItems == 3   \* most items the remote collection of a paging run holds
MaxCalls == 5   \* most calls a paging run makes
MaxDirectBinds == 1   \* descriptors an importer other than index.ts binds

Absent == <<>>          \* an optional value that is not there (undefined)
Some(x) == <<x>>        \* an optional value that is there
IsPresent(o) == Len(o) = 1

(***************************************************************************)
(* The descriptors.                                                        *)
(***************************************************************************)
\* Descriptors whose source is part of the repository snapshot.
Mutations ==
    { "update-page",
      "create-product-metafield", "update-product-metafield",
      "delete-product-metafield",
      "create-metafield-definition", "update-metafield-definition",
      "delete-metafield-definition",
      "create-metaobject", "update-metaobject", "delete-metaobject",
      "create-metaobject-definition", "update-metaobject-definition",
      "delete-metaobject-definition",
      "create-product", "delete-product", "create-collection",
      "adjust-inventory", "create-file", "create-url-redirect",
      "create-menu", "update-menu", "delete-menu",
      "register-translations" }

\* The sources hold two getProductMetafields modules: the one in
\* src/tools/getProductMetafields.ts, keyed by the tool's name, and this one.
GpmPart2 == "get-product-metafields@part_002"
GpmModules == { "get-product-metafields", GpmPart2 }

\* The descriptor module an import of the tool called name binds to.
Resolve(name, r) == IF name = "get-product-metafields" THEN r ELSE name

\* The tool name a descriptor module declares.
ToolName(d) == IF d = GpmPart2 THEN "get-product-metafields" ELSE d

Queries ==
    { "get-product-metafields", GpmPart2, "get-metafield-definitions", "get-metaobjects",
      "get-metaobject-definitions", "get-menus", "get-themes" }

Tools == Mutations \cup Queries

\* Descriptors index.ts imports whose source files are not in the snapshot.
ExternalTools ==
    { "get-products", "get-product-by-id", "update-product", "get-collections",
      "update-collection", "get-pages", "get-blogs", "update-blog",
      "get-articles", "update-article", "get-blog-by-id", "get-article-by-id",
      "search-shopify", "create-article" }

\* Every descriptor defined in the repository.
Descriptors == Tools \cup ExternalTools

\* The initialize(shopifyClient) calls of index.ts, in program order.
InitOrder ==
    << "get-products", "get-product-by-id", "update-product", "get-collections",
       "update-collection", "get-pages", "update-page", "get-blogs",
       "update-blog", "get-articles", "update-article", "get-blog-by-id",
       "get-article-by-id", "search-shopify", "create-article",
       "get-product-metafields", "create-product-metafield",
       "update-product-metafield", "delete-product-metafield",
       "get-metafield-definitions", "create-metafield-definition",
       "update-metafield-definition", "delete-metafield-definition",
       "get-metaobjects", "create-metaobject", "update-metaobject",
       "delete-metaobject",
       "create-metaobject-definition", "update-metaobject-definition",
       "create-product", "delete-product", "create-collection",
       "adjust-inventory", "create-file", "create-url-redirect",
       "get-menus", "create-menu", "update-menu", "delete-menu",
       "get-themes", "register-translations" >>

\* Variant: the last registration reuses the name before it.
RegOrderDuplicate ==
    << "get-products", "get-product-by-id", "get-collections",
       "update-collection", "get-pages", "update-page", "get-blogs",
       "update-blog", "get-articles", "update-article", "get-blog-by-id",
       "get-article-by-id", "search-shopify", "create-article",
       "update-product",
       "get-product-metafields", "create-product-metafield",
       "update-product-metafield", "delete-product-metafield",
       "get-metafield-definitions", "create-metafield-definition",
       "update-metafield-definition", "delete-metafield-definition",
       "get-metaobjects", "create-metaobject", "update-metaobject",
       "delete-metaobject",
       "create-metaobject-definition", "update-metaobject-definition",
       "create-product", "delete-product", "create-collection",
       "adjust-inventory", "create-file", "create-url-redirect",
       "get-menus", "create-menu", "update-menu", "delete-menu",
       "get-themes", "get-themes" >>

\* The server.tool(name, schema, handler) calls of index.ts, in program order.
RegOrder ==
    << "get-products", "get-product-by-id", "get-collections",
       "update-collection", "get-pages", "update-page", "get-blogs",
       "update-blog", "get-articles", "update-article", "get-blog-by-id",
       "get-article-by-id", "search-shopify", "create-article",
       "update-product",
       "get-product-metafields", "create-product-metafield",
       "update-product-metafield", "delete-product-metafield",
       "get-metafield-definitions", "create-metafield-definition",
       "update-metafield-definition", "delete-metafield-definition",
       "get-metaobjects", "create-metaobject", "update-metaobject",
       "delete-metaobject",
       "create-metaobject-definition", "update-metaobject-definition",
       "create-product", "delete-product", "create-collection",
       "adjust-inventory", "create-file", "create-url-redirect",
       "get-menus", "create-menu", "update-menu", "delete-menu",
       "get-themes", "register-translations" >>

Range(f) == { f[i] : i \in DOMAIN f }

(***************************************************************************)
(* Input schemas.  A constraint is [f, kind, opt, lo, hi]; a supplied      *)
(* value is abstracted to [p, n]: p says whether the caller supplied the   *)
(* field and n is the length of a string, the value of a number, the       *)
(* length of a list, the number of keys of an object, or the position of   *)
(* a value in its enumeration (0: not a member).                           *)
(***************************************************************************)
Str1(f)      == [f |-> f, kind |-> "str",  opt |-> FALSE, lo |-> 1, hi |-> 1]
StrMin(f, m) == [f |-> f, kind |-> "str",  opt |-> FALSE, lo |-> m, hi |-> m]
OptStr(f)    == [f |-> f, kind |-> "str",  opt |-> TRUE,  lo |-> 0, hi |-> 1]
OptStr1(f)   == [f |-> f, kind |-> "str",  opt |-> TRUE,  lo |-> 1, hi |-> 1]
List1(f)     == [f |-> f, kind |-> "list", opt |-> FALSE, lo |-> 1, hi |-> 1]
OptList(f)   == [f |-> f, kind |-> "list", opt |-> TRUE,  lo |-> 0, hi |-> 1]
OptList1(f)  == [f |-> f, kind |-> "list", opt |-> TRUE,  lo |-> 1, hi |-> 1]
OptObj(f)    == [f |-> f, kind |-> "obj",  opt |-> TRUE,  lo |-> 0, hi |-> 1]
Enum(f, k)   == [f |-> f, kind |-> "enum", opt |-> FALSE, lo |-> 1, hi |-> k]
OptEnum(f, k) == [f |-> f, kind |-> "enum", opt |-> TRUE, lo |-> 1, hi |-> k]
OptBool(f)   == [f |-> f, kind |-> "bool", opt |-> TRUE,  lo |-> 0, hi |-> 1]
\* z.number() with no bounds; lo and hi only say which values the inputs probe.
AnyNum(f)    == [f |-> f, kind |-> "anynum", opt |-> TRUE, lo |-> 1, hi |-> 250]
OptNum(f, lo, hi) == [f |-> f, kind |-> "num", opt |-> TRUE, lo |-> lo, hi |-> hi]

\* The zod schema each descriptor declares (its `schema` property): the
\* fields that carry a constraint, and the optional fields execute branches on.
DescriptorSchema(t) ==
    CASE t = "update-page" ->
            { Str1("pageId"), OptStr("title"), OptStr("body"),
              OptBool("isPublished") }
      [] t = "get-product-metafields" ->
            { Str1("productId"), OptStr("namespace"), AnyNum("limit") }
      [] t = GpmPart2 ->
            { Str1("productId"), OptStr("namespace"), OptNum("limit", 1, 250),
              OptStr("after") }
      [] t = "create-product-metafield" ->
            { Str1("productId"), Str1("namespace"), Str1("key"), Str1("value"),
              Str1("type") }
      [] t = "update-product-metafield" ->
            { Str1("productId"), Str1("namespace"), Str1("key"), Str1("value"),
              OptStr("type") }
      [] t = "delete-product-metafield" -> { Str1("metafieldId") }
      [] t = "get-metafield-definitions" ->
            { Enum("ownerType", 12), OptStr("namespace"), OptNum("first", 1, 250),
              OptStr("after") }
      [] t = "create-metafield-definition" ->
            { Str1("name"), Str1("namespace"), Str1("key"), Str1("type"),
              Enum("ownerType", 12), OptStr("description"), OptBool("pin") }
      [] t = "update-metafield-definition" ->
            { Str1("id"), OptStr("name"), OptStr("description"), OptBool("pin") }
      [] t = "delete-metafield-definition" ->
            { Str1("id"), OptBool("deleteAllAssociatedMetafields") }
      [] t = "get-metaobjects" ->
            { Str1("type"), AnyNum("limit"), OptStr("after"), OptBool("reverse") }
      [] t = "create-metaobject" ->
            { Str1("type"), OptStr("handle"), List1("fields"),
              Str1("fields[].key"), OptObj("capabilities"),
              OptEnum("capabilities.publishable.status", 2) }
      [] t = "update-metaobject" ->
            { Str1("id"), OptStr("handle"), OptList("fields"),
              OptStr1("fields[].key"), OptObj("capabilities"),
              OptEnum("capabilities.publishable.status", 2) }
      [] t = "delete-metaobject" -> { Str1("id") }
      [] t = "create-metaobject-definition" ->
            { Str1("type"), OptStr("name"), OptStr("description"),
              List1("fieldDefinitions"),
              Str1("fieldDefinitions[].key"), Str1("fieldDefinitions[].type"),
              OptEnum("access.storefront", 2) }
      [] t = "update-metaobject-definition" ->
            { Str1("id"), OptStr("name"), OptStr("description"),
              OptStr1("fieldDefinitionsToUpdate[].key"),
              OptStr1("fieldDefinitionsToCreate[].key"),
              OptStr1("fieldDefinitionsToCreate[].type"),
              OptEnum("access.storefront", 2) }
      [] t = "delete-metaobject-definition" ->
            { Str1("id"), OptBool("deleteAllAssociatedMetaobjects") }
      [] t = "get-metaobject-definitions" ->
            { OptNum("first", 1, 250), OptStr("after") }
      [] t = "create-product" ->
            { Str1("title"), OptEnum("status", 3),
              OptEnum("variants[].inventoryPolicy", 2),
              OptEnum("variants[].weightUnit", 4) }
      [] t = "delete-product" -> { Str1("productId") }
      [] t = "create-collection" ->
            { Str1("title"), OptStr("descriptionHtml"), OptStr("handle"),
              OptEnum("sortOrder", 8),
              OptList1("ruleSet.rules"), OptEnum("ruleSet.rules[].column", 10),
              OptEnum("ruleSet.rules[].relation", 10) }
      [] t = "adjust-inventory" ->
            { Enum("reason", 17), Str1("name"), List1("changes"),
              Str1("changes[].inventoryItemId"), Str1("changes[].locationId") }
      [] t = "create-file" ->
            { List1("files"), Str1("files[].originalSource"),
              OptEnum("files[].contentType", 3) }
      [] t = "create-url-redirect" -> { Str1("path"), Str1("target") }
      [] t = "get-menus" -> { OptNum("first", 1, 50) }
      [] t = "create-menu" ->
            { Str1("title"), Str1("handle"), OptStr1("items[].title") }
      [] t = "update-menu" ->
            { Str1("id"), OptStr1("itemsToUpdate[].id"),
              OptStr1("itemsToAdd[].title") }
      [] t = "delete-menu" -> { Str1("id") }
      [] t = "get-themes" -> { OptNum("first", 1, 50) }
      [] t = "register-translations" ->
            { Str1("resourceId"), StrMin("locale", 2), List1("translations"),
              Str1("translations[].key"),
              Str1("translations[].translatableContentDigest") }

\* Variant: the inline shape of update-page without its min(1).
RegisteredSchemaInlineLoose(t) ==
    IF t = "update-page"
    THEN { OptStr("pageId"), OptStr("title"), OptStr("body"), OptStr("bodyHtml"),
           OptObj("seo"), OptBool("published") }
    ELSE DescriptorSchema(t)

\* The schema index.ts hands to server.tool: the descriptor's own
\* `schema.shape`, except for the tools index.ts registers with an inline shape.
RegisteredSchema(t) ==
    IF t = "update-page"
    THEN { Str1("pageId"), OptStr("title"), OptStr("body"), OptStr("bodyHtml"),
           OptObj("seo"), OptBool("published") }
    ELSE DescriptorSchema(t)

Fields(schema) == { c.f : c \in schema }

\* zod's check of one supplied value against one constraint.
Check(c, v) ==
    IF ~v.p THEN c.opt
    ELSE CASE c.kind = "str"  -> v.n >= c.lo
           [] c.kind = "list" -> v.n >= c.lo
           [] c.kind = "obj"  -> TRUE
           [] c.kind = "bool" -> TRUE
           [] c.kind = "anynum" -> TRUE
           [] c.kind = "num"  -> c.lo <= v.n /\ v.n <= c.hi
           [] c.kind = "enum" -> 1 <= v.n /\ v.n <= c.hi

\* The fields whose schema declares .default(...), and the default.
HasDefault(t, f) ==
    \/ t \in { "get-product-metafields", GpmPart2, "get-metaobjects" } /\ f = "limit"
    \/ t = "get-metaobjects" /\ f = "reverse"

Default(t, f) == IF f = "limit" THEN 20 ELSE 0

\* z.object(shape).parse(args): what the handler receives for valid args.
\* Keys the registered shape does not declare are stripped, and a declared
\* default fills a key left out.
Parse(t, a) ==
    [ f \in DOMAIN a |->
        IF f \notin Fields(RegisteredSchema(t)) THEN [p |-> FALSE, n |-> 0]
        ELSE IF ~a[f].p /\ HasDefault(t, f) THEN [p |-> TRUE, n |-> Default(t, f)]
        ELSE a[f] ]

\* A nested field is parsed only inside the object that holds it:
\* capabilities.publishable.status exists only in a capabilities object that
\* has its publishable key.
Reached(f, a) ==
    (f = "capabilities.publishable.status" /\ "capabilities" \in DOMAIN a)
    => (a["capabilities"].p /\ a["capabilities"].n > 0)

\* z.object(shape).safeParse(args).success
Validate(schema, a) == \A c \in schema : Reached(c.f, a) => Check(c, a[c.f])

(***************************************************************************)
(* Per-descriptor facts read off each execute function.                    *)
(***************************************************************************)
\* execute starts with `if (!shopifyClient) throw new Error(NotInitialized)`.
HasGuard(t) ==
    t \notin { "update-page", "get-product-metafields",
               "create-product-metafield", "update-product-metafield",
               "delete-product-metafield", "get-metaobjects",
               "create-metaobject" }

\* The GraphQL document asks for userErrors { code }.
RequestsCode(t) ==
    t \in Mutations \ { "update-page", "delete-product-metafield",
                        "create-product", "delete-product",
                        "create-collection", "create-url-redirect" }

\* The user-error branch maps each error to `${message} (${code})`.
CodeInMessage(t) ==
    t \in Mutations \ { "update-page", "delete-product-metafield",
                        "create-product", "delete-product",
                        "create-collection", "create-url-redirect",
                        "create-product-metafield", "update-product-metafield" }

\* The expected payload is a list that the payload check also tests for length 0.
ListPayload(t) ==
    t \in { "create-product-metafield", "update-product-metafield",
            "create-file", "register-translations" }

NotInitialized == "GraphQL client not initialized. Call initialize() first."
UndefinedRequest == "Cannot read properties of undefined (reading 'request')"
NoFieldsProvided ==
    "No fields provided to update. Please provide handle, fields, or capabilities."

\* The prefix the catch block of execute puts before the caught message.
OuterPrefix(t) ==
    CASE t = "update-page" -> "Failed to update page: "
      [] t \in GpmModules -> "Failed to fetch product metafields: "
      [] t = "create-product-metafield" -> "Failed to create product metafield: "
      [] t = "update-product-metafield" -> "Failed to update product metafield: "
      [] t = "delete-product-metafield" -> "Failed to delete product metafield: "
      [] t = "get-metafield-definitions" -> "Failed to get metafield definitions: "
      [] t = "create-metafield-definition" -> "Failed to create metafield definition: "
      [] t = "update-metafield-definition" -> "Failed to update metafield definition: "
      [] t = "delete-metafield-definition" -> "Failed to delete metafield definition: "
      [] t = "get-metaobjects" -> "Failed to fetch metaobjects: "
      [] t = "create-metaobject" -> "Failed to create metaobject: "
      [] t = "update-metaobject" -> "Failed to update metaobject: "
      [] t = "delete-metaobject" -> "Failed to delete metaobject: "
      [] t = "create-metaobject-definition" -> "Failed to create metaobject definition: "
      [] t = "update-metaobject-definition" -> "Failed to update metaobject definition: "
      [] t = "delete-metaobject-definition" -> "Failed to delete metaobject definition: "
      [] t = "get-metaobject-definitions" -> "Failed to get metaobject definitions: "
      [] t = "create-product" -> "Failed to create product: "
      [] t = "delete-product" -> "Failed to delete product: "
      [] t = "create-collection" -> "Failed to create collection: "
      [] t = "adjust-inventory" -> "Failed to adjust inventory: "
      [] t = "create-file" -> "Failed to create file: "
      [] t = "create-url-redirect" -> "Failed to create URL redirect: "
      [] t = "get-menus" -> "Failed to get menus: "
      [] t = "create-menu" -> "Failed to create menu: "
      [] t = "update-menu" -> "Failed to update menu: "
      [] t = "delete-menu" -> "Failed to delete menu: "
      [] t = "get-themes" -> "Failed to get themes: "
      [] t = "register-translations" -> "Failed to register translations: "

\* The prefix of the error thrown when userErrors is non-empty.
UserErrorPrefix(t) ==
    CASE t = "create-product-metafield" -> "Failed to create metafield: "
      [] t = "update-product-metafield" -> "Failed to update metafield: "
      [] t = "delete-product-metafield" -> "Failed to delete metafield: "
      [] t = "create-file" -> "Failed to create file(s): "
      [] OTHER -> OuterPrefix(t)

\* Variant: the missing payload is thrown with the user-error prefix.
EmptyPayloadMessageAsUserError(t) == UserErrorPrefix(t)

\* The message thrown when userErrors is empty and the payload is missing.
EmptyPayloadMessage(t) ==
    CASE t = "update-page" -> "Page update failed: No page returned"
      [] t \in GpmModules -> "Product with ID ${productId} not found"
      [] t = "create-product-metafield" -> "Metafield creation failed: No metafield returned"
      [] t = "update-product-metafield" -> "Metafield update failed: No metafield returned"
      [] t = "delete-product-metafield" ->
            "Metafield deletion failed: No deletedId returned. The metafield may not exist."
      [] t = "create-metafield-definition" ->
            "Metafield definition creation failed: No definition returned"
      [] t = "update-metafield-definition" ->
            "Metafield definition update failed: No definition returned"
      [] t = "delete-metafield-definition" ->
            "Metafield definition deletion failed: No deleted ID returned"
      [] t = "create-metaobject" -> "Metaobject creation failed: No metaobject returned"
      [] t = "update-metaobject" -> "Metaobject update failed: No metaobject returned"
      [] t = "delete-metaobject" -> "Metaobject deletion failed: No deleted ID returned"
      [] t = "create-metaobject-definition" ->
            "Metaobject definition creation failed: No definition returned"
      [] t = "update-metaobject-definition" ->
            "Metaobject definition update failed: No definition returned"
      [] t = "delete-metaobject-definition" ->
            "Metaobject definition deletion failed: No deleted ID returned"
      [] t = "create-product" -> "Product creation failed: No product returned"
      [] t = "delete-product" -> "Product deletion failed: No deleted product ID returned"
      [] t = "create-collection" -> "Collection creation failed: No collection returned"
      [] t = "adjust-inventory" -> "Inventory adjustment failed: No adjustment group returned"
      [] t = "create-file" -> "File creation failed: No files returned"
      [] t = "create-url-redirect" -> "URL redirect creation failed: No redirect returned"
      [] t = "create-menu" -> "Menu creation failed: No menu returned"
      [] t = "update-menu" -> "Menu update failed: No menu returned"
      [] t = "delete-menu" -> "Menu deletion failed: No deleted ID returned"
      [] t = "register-translations" ->
            "Translation registration failed: No translations returned"

(***************************************************************************)
(* Caller inputs.                                                          *)
(***************************************************************************)
Val(p, n) == [p |-> p, n |-> n]
Missing == Val(FALSE, 0)

\* A value that satisfies constraint c.
GoodValue(c) == Val(TRUE, IF c.lo >= 1 THEN c.lo ELSE 1)

\* Values around the edges of constraint c, and the field left out.
EdgeValues(c) ==
    { Missing } \cup
    { Val(TRUE, n) : n \in
        CASE c.kind = "str"  -> 0 .. c.lo
          [] c.kind = "list" -> 0 .. 1
          [] c.kind = "obj"  -> 0 .. 1
          [] c.kind = "bool" -> 0 .. 1
          [] c.kind = "anynum" -> { c.lo - 1, c.lo, c.hi, c.hi + 1 }
          [] c.kind = "num"  -> { c.lo - 1, c.lo, c.hi, c.hi + 1 }
          [] c.kind = "enum" -> { 0, 1, c.hi, c.hi + 1 } }

Baseline(schema) ==
    [ f \in Fields(schema) |-> GoodValue(CHOOSE c \in schema : c.f = f) ]

\* The tools that submit a list of sub-changes in one request, and the
\* argument that holds the list.
BatchTools == { "register-translations", "create-file", "adjust-inventory" }

BatchField(t) ==
    CASE t = "register-translations" -> "translations"
      [] t = "create-file" -> "files"
      [] t = "adjust-inventory" -> "changes"

\* The argument records tried for tool t: the baseline with one field moved
\* to an edge, and for update-metaobject every combination of its three
\* optional parts.
ArgSets(t) ==
    LET schema == DescriptorSchema(t) \cup RegisteredSchema(t)
        base   == Baseline(schema)
        single == UNION { { [base EXCEPT ![c.f] = v] : v \in EdgeValues(c) } :
                            c \in schema }
        parts  == IF t = "update-metaobject"
                  THEN { [base EXCEPT !["handle"] = h, !["fields"] = fl,
                                      !["capabilities"] = cp] :
                           h  \in EdgeValues(OptStr("handle")),
                           fl \in EdgeValues(OptList("fields")),
                           cp \in EdgeValues(OptObj("capabilities")) }
                  ELSE {}
        batch  == IF t \in BatchTools
                  THEN { [base EXCEPT ![BatchField(t)] = Val(TRUE, n)] :
                           n \in 1 .. MaxBatch }
                  ELSE {}
    IN  single \cup parts \cup batch

SeqsUpTo(S, n) == UNION { [1 .. k -> S] : k \in 0 .. n }

\* The three change lists of update-metaobject-definition.
UpdateEntries ==
    { [key |-> "k1", name |-> Some("Title")], [key |-> "k2", name |-> Absent] }
CreateEntries ==
    { [key |-> "k1", type |-> "single_line_text_field"],
      [key |-> "k3", type |-> "number_integer"] }
DeleteKeys == { "k1", "k2" }

OptSeqs(S) == { Absent } \cup { Some(q) : q \in SeqsUpTo(S, MaxList) }

NoDiff == [toUpdate |-> Absent, toCreate |-> Absent, toDelete |-> Absent]

\* update-menu's itemsToUpdate, itemsToAdd and itemsToRemove elements.
MenuItemsToUpdate == { [id |-> "i1", title |-> "A"], [id |-> "i2", title |-> "B"] }
MenuItemsToAdd    == { [title |-> "N"] }
MenuItemsToRemove == { "i1", "i3" }

\* A menu item of create-menu: { title, url?, resourceId?, items? }.
MenuItemInput(title, url, resourceId, items) ==
    [title |-> title, url |-> url, resourceId |-> resourceId, items |-> items]

\* An items list of b siblings titled by their position in the tree; sibling
\* i nests d - i further levels, and an item that nests nothing has `items`
\* equal to leaf (left out, or an empty list).
RECURSIVE MenuTree(_, _, _, _)
MenuTree(path, d, b, leaf) ==
    [ i \in 1 .. b |->
        MenuItemInput(path \o <<i>>,
                      IF i % 2 = 1 THEN Some("/pages/x") ELSE Absent,
                      IF i % 2 = 0 THEN Some("gid://shopify/Page/1") ELSE Absent,
                      IF d - i >= 0
                      THEN Some(MenuTree(path \o <<i>>, d - i, b, leaf))
                      ELSE leaf) ]

\* The `items` argument of create-menu: left out, or a finite tree.
MenuTrees ==
    { Absent } \cup
    { Some(MenuTree(<<>>, d, b, leaf)) :
        d \in 0 .. MaxDepth, b \in 0 .. MaxBreadth, leaf \in { Absent, Some(<<>>) } }

\* The three change lists of a call: fieldDefinitionsToUpdate / ToCreate /
\* ToDelete of update-metaobject-definition, itemsToUpdate / itemsToAdd /
\* itemsToRemove of update-menu; for create-menu, its items in toCreate.
Diffs(t) ==
    IF t = "update-metaobject-definition"
    THEN [toUpdate : OptSeqs(UpdateEntries), toCreate : OptSeqs(CreateEntries),
          toDelete : OptSeqs(DeleteKeys)]
    ELSE IF t = "update-menu"
    THEN [toUpdate : OptSeqs(MenuItemsToUpdate), toCreate : OptSeqs(MenuItemsToAdd),
          toDelete : OptSeqs(MenuItemsToRemove)]
    ELSE IF t = "create-menu"
    THEN [toUpdate : { Absent }, toCreate : MenuTrees, toDelete : { Absent }]
    ELSE { NoDiff }

\* Inputs tried for tool t: argument edges with no change lists, or the
\* baseline arguments with any change lists.
Inputs(t) ==
    { [args |-> a, diff |-> NoDiff] : a \in ArgSets(t) } \cup
    { [args |-> Baseline(DescriptorSchema(t) \cup RegisteredSchema(t)),
       diff |-> d] : d \in Diffs(t) }

(***************************************************************************)
(* Remote responses.                                                       *)
(***************************************************************************)
UserErrors(t) ==
    IF t \in Queries THEN {}
    ELSE IF RequestsCode(t)
    THEN { [message |-> "Key is taken", code |-> Some("TAKEN")],
           [message |-> "Value is invalid", code |-> Some("INVALID")] }
    ELSE { [message |-> "Key is taken", code |-> Absent],
           [message |-> "Value is invalid", code |-> Absent] }

TransportMessages == { "ECONNRESET", "GraphQL Error (Code: 401)" }

Payloads(t) ==
    IF t \in Mutations
    THEN { "present", "null", "absent" } \cup
         (IF ListPayload(t) THEN { "empty" } ELSE {})
    ELSE IF t \in GpmModules THEN { "present", "null" }
    ELSE { "present" }

\* The query selects pageInfo { hasNextPage endCursor }.
SelectsPageInfo(t) == t \in Queries \ { "get-menus", "get-themes" }

\* The tools whose result carries metaobjects.
MetaobjectTools == { "get-metaobjects", "create-metaobject", "update-metaobject" }

\* The response carries nodes that execute formats: the edges of a list
\* query, or the single metaobject of a metaobject mutation.
HasNodes(t) == t \in Queries \cup MetaobjectTools \cup BatchTools

\* The fields a remote metaobject can carry: { key, value, type }.
RemoteFields ==
    { [key |-> "title", value |-> "A", type |-> "single_line_text_field"],
      [key |-> "title", value |-> "C", type |-> "multi_line_text_field"],
      [key |-> "__proto__", value |-> "P", type |-> "single_line_text_field"] }

\* The nodes a response can carry.
Nodes(t) ==
    IF t \in MetaobjectTools
    THEN { [id |-> "n1", fields |-> fs] : fs \in SeqsUpTo(RemoteFields, MaxFields) }
    ELSE IF t \in Queries
    THEN { [id |-> "n1", fields |-> <<>>], [id |-> "n2", fields |-> <<>>] }
    ELSE IF t \in BatchTools
    THEN { [id |-> "n1", fields |-> <<>>] }
    ELSE {}

NodeSeqs(t) ==
    IF t \in Queries THEN SeqsUpTo(Nodes(t), MaxPage)
    ELSE IF t \in BatchTools
    THEN { ns \in SeqsUpTo(Nodes(t), MaxBatch) : ListPayload(t) => ns # <<>> }
    ELSE { <<n>> : n \in Nodes(t) }

PageInfos(t) ==
    IF SelectsPageInfo(t)
    THEN { Some([hasNextPage |-> h, endCursor |-> c]) :
             h \in BOOLEAN, c \in { Absent, Some(1) } }
    ELSE { Absent }

NoResponse ==
    [kind |-> "none", msg |-> "", userErrors |-> <<>>, payload |-> "absent",
     nodes |-> <<>>, pageInfo |-> Absent]

Responses(t) ==
    { [kind |-> "transport", msg |-> m, userErrors |-> <<>>, payload |-> "absent",
       nodes |-> <<>>, pageInfo |-> Absent] :
        m \in TransportMessages } \cup
    { r \in { [kind |-> "data", msg |-> "", userErrors |-> ue, payload |-> pl,
                nodes |-> <<>>, pageInfo |-> Absent] :
                 ue \in SeqsUpTo(UserErrors(t), MaxErrs), pl \in Payloads(t) } :
        ~(HasNodes(t) /\ r.userErrors = <<>> /\ r.payload = "present") } \cup
    { [kind |-> "data", msg |-> "", userErrors |-> <<>>, payload |-> "present",
       nodes |-> ns, pageInfo |-> pi] :
        ns \in NodeSeqs(t), pi \in PageInfos(t) }

(***************************************************************************)
(* execute, up to its await.                                               *)
(***************************************************************************)
\* JavaScript truthiness of a supplied string, list or object (`x`,
\* `x.length > 0`, `Object.keys(x).length > 0`).
Truthy(v) == v.p /\ v.n > 0

\* Variant: an empty metaobjectInput is sent as it is.
PreCheckFailsNever(t, a) == FALSE

\* update-metaobject: metaobjectInput stays empty, so execute throws before
\* the request.
PreCheckFails(t, a) ==
    /\ t = "update-metaobject"
    /\ ~Truthy(a["handle"])
    /\ ~Truthy(a["fields"])
    /\ ~Truthy(a["capabilities"])

Entry(u, c, d) == [update |-> u, create |-> c, delete |-> d]

UpdateEntry(field) == Entry(Some(field), Absent, Absent)
CreateEntry(field) == Entry(Absent, Some(field), Absent)
\* Variant: the delete entry also carries an update tag.
DeleteEntryAlsoUpdate(key) == Entry(Some([key |-> key]), Absent, Some([key |-> key]))

DeleteEntry(key) == Entry(Absent, Absent, Some([key |-> key]))

\* The element pushed for x by the loop over the list named by tag.
Pushed(tag, x) ==
    CASE tag = "update" -> UpdateEntry(x)
      [] tag = "create" -> CreateEntry(x)
      [] tag = "delete" -> DeleteEntry(x)

\* `if (list) list.forEach(x => fieldDefinitions.push(...))`
PushAll(optList, tag) ==
    IF IsPresent(optList)
    THEN [ i \in 1 .. Len(optList[1]) |-> Pushed(tag, optList[1][i]) ]
    ELSE <<>>

\* Variant: an update whose key is also deleted is dropped.
BuildFieldDefinitionsReconciled(d) ==
    LET deleted == IF IsPresent(d.toDelete) THEN Range(d.toDelete[1]) ELSE {}
        kept    == IF IsPresent(d.toUpdate)
                   THEN Some(SelectSeq(d.toUpdate[1], LAMBDA f : f.key \notin deleted))
                   ELSE Absent
    IN  PushAll(kept, "update") \o PushAll(d.toCreate, "create")
            \o PushAll(d.toDelete, "delete")

\* The fieldDefinitions array update-metaobject-definition builds.
BuildFieldDefinitions(d) ==
    PushAll(d.toUpdate, "update") \o PushAll(d.toCreate, "create")
        \o PushAll(d.toDelete, "delete")

\* A request variable as it leaves execute: left undefined (dropped when the
\* variables are serialised), null, or a value.
Undefined == [k |-> "undefined", n |-> 0]
Null      == [k |-> "null", n |-> 0]
Value(n)  == [k |-> "value", n |-> n]

\* Variant: a flag left out by the caller defaults to true.
IfDefinedElseTrue(v) == IF v.p THEN Value(v.n) ELSE Value(1)

\* `if (x !== undefined) variables.x = x`
IfDefined(v) == IF v.p THEN Value(v.n) ELSE Undefined

\* Variant: a supplied value is copied whatever it is.
IfTruthyOrEmpty(v) == IF v.p THEN Value(v.n) ELSE Undefined

\* `if (x) variables.x = x`
IfTruthy(v) == IF Truthy(v) THEN Value(v.n) ELSE Undefined

\* `x || null`
OrNull(v) == IF Truthy(v) THEN Value(v.n) ELSE Null

\* `const { first = k } = input`
OrDefault(v, k) == IF v.p THEN Value(v.n) ELSE Value(k)

\* Variant: a call that names no status asks for DRAFT.
PublishableStatusDefaultDraft(a) ==
    IF Reached("capabilities.publishable.status", a)
         /\ a["capabilities.publishable.status"].p
    THEN Value(a["capabilities.publishable.status"].n)
    ELSE Value(2)

\* The status inside the capabilities object execute copies into
\* metaobjectInput: the caller's, if the object holds one.
PublishableStatus(a) ==
    IF Reached("capabilities.publishable.status", a)
         /\ a["capabilities.publishable.status"].p
    THEN Value(a["capabilities.publishable.status"].n)
    ELSE Undefined

MetaobjectInput ==
    { "metaobject.handle", "metaobject.fields", "metaobject.capabilities",
      "metaobject.capabilities.publishable.status" }

MetafieldsSetInput ==
    { "metafields[0].ownerId", "metafields[0].namespace", "metafields[0].key",
      "metafields[0].value", "metafields[0].type" }

\* The names execute can put in its variables, per tool.
VariableNames(t) ==
    CASE t \in { "create-product-metafield", "update-product-metafield" } ->
            MetafieldsSetInput
      [] t = "update-page" -> { "id", "page.title", "page.body", "page.isPublished" }
      [] t = "create-collection" ->
            { "input.title", "input.descriptionHtml", "input.handle" }
      [] t = "create-metafield-definition" ->
            { "definition.name", "definition.description", "definition.pin" }
      [] t = "update-metafield-definition" ->
            { "definition.id", "definition.name", "definition.description",
              "definition.pin" }
      [] t = "create-metaobject-definition" ->
            { "definition.type", "definition.name", "definition.description" }
      [] t = "update-metaobject-definition" ->
            { "id", "definition.name", "definition.description" }
      [] t = "create-metaobject" -> { "metaobject.type" } \cup MetaobjectInput
      [] t = "update-metaobject" -> { "id" } \cup MetaobjectInput
      [] t = "get-product-metafields" -> { "id", "first", "namespace" }
      [] t = GpmPart2 -> { "id", "first", "namespace", "after" }
      [] t = "get-metaobjects" -> { "type", "first", "after", "reverse" }
      [] t = "get-metafield-definitions" ->
            { "ownerType", "first", "namespace", "after" }
      [] t = "get-metaobject-definitions" -> { "first", "after" }
      [] t \in { "get-menus", "get-themes" } -> { "first" }
      [] t = "delete-metafield-definition" -> { "id", "deleteAllAssociatedMetafields" }
      [] t = "delete-metaobject-definition" -> { "id", "deleteAllAssociatedMetaobjects" }
      [] OTHER -> {}

\* The value execute gives variable v from input a.
VariableValue(t, a, v) ==
    CASE t \in { "create-product-metafield", "update-product-metafield" } ->
            IF v = "metafields[0].ownerId" THEN Value(a["productId"].n)
            ELSE IF v = "metafields[0].namespace" THEN Value(a["namespace"].n)
            ELSE IF v = "metafields[0].key" THEN Value(a["key"].n)
            ELSE IF v = "metafields[0].value" THEN Value(a["value"].n)
            ELSE IF t = "create-product-metafield" THEN Value(a["type"].n)
            ELSE IfTruthy(a["type"])
      [] t = "update-page" ->
            IF v = "id" THEN Value(a["pageId"].n)
            ELSE IF v = "page.title" THEN IfDefined(a["title"])
            ELSE IF v = "page.body" THEN IfDefined(a["body"])
            ELSE IfDefined(a["isPublished"])
      [] t = "create-collection" ->
            IF v = "input.title" THEN Value(a["title"].n)
            ELSE IF v = "input.descriptionHtml" THEN IfTruthy(a["descriptionHtml"])
            ELSE IfTruthy(a["handle"])
      [] t = "create-metafield-definition" ->
            IF v = "definition.name" THEN Value(a["name"].n)
            ELSE IF v = "definition.description" THEN IfTruthy(a["description"])
            ELSE IfDefined(a["pin"])
      [] t = "update-metafield-definition" ->
            IF v = "definition.id" THEN Value(a["id"].n)
            ELSE IF v = "definition.name" THEN IfDefined(a["name"])
            ELSE IF v = "definition.description" THEN IfDefined(a["description"])
            ELSE IfDefined(a["pin"])
      [] t = "create-metaobject-definition" ->
            IF v = "definition.type" THEN Value(a["type"].n)
            ELSE IF v = "definition.name" THEN IfTruthy(a["name"])
            ELSE IfTruthy(a["description"])
      [] t = "update-metaobject-definition" ->
            IF v = "id" THEN Value(a["id"].n)
            ELSE IF v = "definition.name" THEN IfDefined(a["name"])
            ELSE IfDefined(a["description"])
      [] t = "create-metaobject" ->
            IF v = "metaobject.type" THEN Value(a["type"].n)
            ELSE IF v = "metaobject.fields" THEN Value(a["fields"].n)
            ELSE IF v = "metaobject.handle" THEN IfTruthy(a["handle"])
            ELSE IF v = "metaobject.capabilities" THEN IfDefined(a["capabilities"])
            ELSE PublishableStatus(a)
      [] t = "update-metaobject" ->
            IF v = "id" THEN Value(a["id"].n)
            ELSE IF v = "metaobject.fields" THEN IfTruthy(a["fields"])
            ELSE IF v = "metaobject.handle" THEN IfTruthy(a["handle"])
            ELSE IF v = "metaobject.capabilities" THEN IfTruthy(a["capabilities"])
            ELSE IF Truthy(a["capabilities"]) THEN PublishableStatus(a)
            ELSE Undefined
      [] t = "get-product-metafields" ->
            IF v = "id" THEN Value(a["productId"].n)
            ELSE IF v = "first" THEN IfDefined(a["limit"])
            ELSE OrNull(a["namespace"])
      [] t = GpmPart2 ->
            IF v = "id" THEN Value(a["productId"].n)
            ELSE IF v = "first" THEN IfDefined(a["limit"])
            ELSE IfTruthy(a[v])
      [] t = "get-metaobjects" ->
            IF v = "type" THEN Value(a["type"].n)
            ELSE IF v = "first" THEN IfDefined(a["limit"])
            ELSE IF v = "after" THEN OrNull(a["after"])
            ELSE IfDefined(a["reverse"])
      [] t = "get-metafield-definitions" ->
            IF v = "ownerType" THEN Value(a["ownerType"].n)
            ELSE IF v = "first" THEN OrDefault(a["first"], 50)
            ELSE IfTruthy(a[v])
      [] t = "get-metaobject-definitions" ->
            IF v = "first" THEN OrDefault(a["first"], 50) ELSE IfTruthy(a[v])
      [] t = "get-menus" -> OrDefault(a["first"], 20)
      [] t = "get-themes" -> OrDefault(a["first"], 10)
      [] t \in { "delete-metafield-definition", "delete-metaobject-definition" } ->
            IF v = "id" THEN Value(a["id"].n) ELSE IfDefined(a[v])

RequestVariables(t, a) == [ v \in VariableNames(t) |-> VariableValue(t, a, v) ]

NoVariables == [ v \in {} |-> Undefined ]

\* One element of update-menu's items array: { id?, title?, remove? }.
MenuItem(id, title, remove) == [id |-> id, title |-> title, remove |-> remove]

\* `if (list) list.forEach(x => items.push(...))`, for each of the three lists.
PushItemsToUpdate(optList) ==
    IF IsPresent(optList)
    THEN [ i \in 1 .. Len(optList[1]) |->
             MenuItem(Some(optList[1][i].id), Some(optList[1][i].title), Absent) ]
    ELSE <<>>

PushItemsToAdd(optList) ==
    IF IsPresent(optList)
    THEN [ i \in 1 .. Len(optList[1]) |->
             MenuItem(Absent, Some(optList[1][i].title), Absent) ]
    ELSE <<>>

PushItemsToRemove(optList) ==
    IF IsPresent(optList)
    THEN [ i \in 1 .. Len(optList[1]) |->
             MenuItem(Some(optList[1][i]), Absent, Some(TRUE)) ]
    ELSE <<>>

\* Variant: removals are sent ahead of updates and additions.
BuildItemsRemovalsFirst(d) ==
    PushItemsToRemove(d.toDelete) \o PushItemsToUpdate(d.toUpdate)
        \o PushItemsToAdd(d.toCreate)

\* The items array update-menu builds.
BuildItems(d) ==
    PushItemsToUpdate(d.toUpdate) \o PushItemsToAdd(d.toCreate)
        \o PushItemsToRemove(d.toDelete)

RECURSIVE TransformItems(_)
\* Variant: only the top-level items are sent, without their children.
TransformItemsTopLevel(menuItems) ==
    IF ~IsPresent(menuItems) THEN Absent
    ELSE Some([ i \in 1 .. Len(menuItems[1]) |->
                 MenuItemInput(menuItems[1][i].title, menuItems[1][i].url,
                               menuItems[1][i].resourceId, Absent) ])

\* create-menu's transformItems: undefined for no list, else each item mapped
\* to { title, url, resourceId, items: item.items ? transformItems(item.items)
\* : undefined }.
TransformItems(menuItems) ==
    IF ~IsPresent(menuItems) THEN Absent
    ELSE Some([ i \in 1 .. Len(menuItems[1]) |->
                 MenuItemInput(menuItems[1][i].title, menuItems[1][i].url,
                               menuItems[1][i].resourceId,
                               IF IsPresent(menuItems[1][i].items)
                               THEN TransformItems(menuItems[1][i].items)
                               ELSE Absent) ])

NoRequest ==
    [sent |-> FALSE, fieldDefinitions |-> Absent, items |-> Absent,
     variables |-> NoVariables]

\* The variables of the request execute sends.
Variables(t, a, d) ==
    [ sent |-> TRUE,
      fieldDefinitions |->
          IF t = "update-metaobject-definition"
               /\ Len(BuildFieldDefinitions(d)) > 0
          THEN Some(BuildFieldDefinitions(d))
          ELSE Absent,
      items |->
          IF t = "update-menu" /\ Len(BuildItems(d)) > 0
          THEN Some(BuildItems(d))
          ELSE IF t = "create-menu" THEN TransformItems(d.toCreate)
          ELSE Absent,
      variables |-> RequestVariables(t, a) ]

\* Variant: update-metaobject-definition sends one request per change.
RequestCallsPerChange(t, a, d) ==
    IF t = "update-metaobject-definition" /\ Len(BuildFieldDefinitions(d)) > 0
    THEN Len(BuildFieldDefinitions(d))
    ELSE 1

\* How many times execute calls shopifyClient.request before it suspends.
RequestCalls(t, a, d) == 1

NoResult == [items |-> <<>>, pageInfo |-> Absent]
NoOutcome == [kind |-> "none", msg |-> <<>>, result |-> NoResult]
Success == [kind |-> "success", msg |-> <<>>, result |-> NoResult]
SuccessWith(res) == [kind |-> "success", msg |-> <<>>, result |-> res]
Failure(msg) == [kind |-> "failure", msg |-> msg, result |-> NoResult]
\* The protocol runtime's rejection of arguments that fail the registered schema.
InvalidParams(t) ==
    [kind |-> "validation", msg |-> <<"Invalid arguments for tool ", t>>,
     result |-> NoResult]

\* execute(input) from its first statement to its await (or to the throw
\* that ends it first); client is the module's shopifyClient.
ExecuteStart(t, a, d, client) ==
    IF HasGuard(t) /\ client = "undefined"
    THEN [stage |-> "done", reqs |-> 0, request |-> NoRequest,
          outcome |-> Failure(<<NotInitialized>>)]
    ELSE IF PreCheckFails(t, a)
    THEN [stage |-> "done", reqs |-> 0, request |-> NoRequest,
          outcome |-> Failure(<<OuterPrefix(t), NoFieldsProvided>>)]
    ELSE IF client = "undefined"
    THEN [stage |-> "done", reqs |-> 0, request |-> NoRequest,
          outcome |-> Failure(<<OuterPrefix(t), UndefinedRequest>>)]
    ELSE [stage |-> "awaiting", reqs |-> RequestCalls(t, a, d),
          request |-> Variables(t, a, d), outcome |-> NoOutcome]

(***************************************************************************)
(* execute, after its await.                                               *)
(***************************************************************************)
CodeText(c) == IF IsPresent(c) THEN c[1] ELSE "undefined"

\* The text one user error contributes to the thrown message.
FormatError(t, e) ==
    IF CodeInMessage(t)
    THEN <<e.message, " (", CodeText(e.code), ")">>
    ELSE <<e.message>>

RECURSIVE JoinErrors(_, _)
\* userErrors.map(format).join(", ")
JoinErrors(t, errs) ==
    IF errs = <<>> THEN <<>>
    ELSE IF Len(errs) = 1 THEN FormatError(t, errs[1])
    ELSE FormatError(t, errs[1]) \o <<", ">> \o JoinErrors(t, Tail(errs))

\* The message thrown for a non-empty user-error list, as the catch block
\* re-throws it.
UserErrorMessage(t, errs) ==
    <<OuterPrefix(t), UserErrorPrefix(t)>> \o JoinErrors(t, errs)

\* Variant: the payload check without the length test.
PayloadMissingNullOnly(t, pl) == pl \in { "null", "absent" }

\* The payload check: `!payload`, and `payload.length === 0` for list payloads.
PayloadMissing(t, pl) ==
    \/ pl \in { "null", "absent" }
    \/ ListPayload(t) /\ pl = "empty"

\* `obj[key] = val` on a plain object: an own property is set, except that the
\* key "__proto__" reaches the inherited setter and sets no own property.
AssignProperty(obj, key, val) ==
    IF key = "__proto__" THEN obj
    ELSE [ k \in DOMAIN obj \cup { key } |-> IF k = key THEN val ELSE obj[k] ]

EmptyObject == [ k \in {} |-> [value |-> "", type |-> ""] ]

\* fields.forEach(field => fieldsObject[field.key] = { value, type })
RECURSIVE FieldsObject(_)
FieldsObject(fields) ==
    IF fields = <<>> THEN EmptyObject
    ELSE LET last == fields[Len(fields)]
         IN  AssignProperty(FieldsObject(SubSeq(fields, 1, Len(fields) - 1)),
                            last.key,
                            [value |-> last.value, type |-> last.type])

\* The item execute builds from one node.
Format(t, node) ==
    IF t \in MetaobjectTools
    THEN [id |-> node.id, fields |-> FieldsObject(node.fields),
          fieldsArray |-> node.fields]
    ELSE [id |-> node.id]

\* The value a list-returning execute returns: edges.map(...) and the
\* response's pageInfo where the tool returns one.
ListResult(t, r) ==
    [ items |-> [ i \in 1 .. Len(r.nodes) |-> Format(t, r.nodes[i]) ],
      pageInfo |-> IF SelectsPageInfo(t) THEN r.pageInfo ELSE Absent ]

\* Variant: the payload check comes before the user-error check.
ExecuteResumePayloadFirst(t, r) ==
    IF r.kind = "transport" THEN Failure(<<OuterPrefix(t), r.msg>>)
    ELSE IF (t \in Mutations \/ t \in GpmModules)
             /\ PayloadMissing(t, r.payload)
    THEN Failure(<<OuterPrefix(t), EmptyPayloadMessage(t)>>)
    ELSE IF t \in Mutations /\ Len(r.userErrors) > 0
    THEN Failure(UserErrorMessage(t, r.userErrors))
    ELSE IF t \in Queries \/ t \in BatchTools THEN SuccessWith(ListResult(t, r))
    ELSE IF t \in MetaobjectTools
    THEN SuccessWith([items |-> <<Format(t, r.nodes[1])>>, pageInfo |-> Absent])
    ELSE Success

\* Variant: execute without its payload check.
ExecuteResumeNoPayloadCheck(t, r) ==
    IF r.kind = "transport" THEN Failure(<<OuterPrefix(t), r.msg>>)
    ELSE IF t \in Mutations /\ Len(r.userErrors) > 0
    THEN Failure(UserErrorMessage(t, r.userErrors))
    ELSE Success

\* The rest of execute once the awaited request settled with r.
ExecuteResume(t, r) ==
    IF r.kind = "transport" THEN Failure(<<OuterPrefix(t), r.msg>>)
    ELSE IF t \in Mutations /\ Len(r.userErrors) > 0
    THEN Failure(UserErrorMessage(t, r.userErrors))
    ELSE IF (t \in Mutations \/ t \in GpmModules)
             /\ PayloadMissing(t, r.payload)
    THEN Failure(<<OuterPrefix(t), EmptyPayloadMessage(t)>>)
    ELSE IF t \in Queries \/ t \in BatchTools THEN SuccessWith(ListResult(t, r))
    ELSE IF t \in MetaobjectTools
    THEN SuccessWith([items |-> <<Format(t, r.nodes[1])>>, pageInfo |-> Absent])
    ELSE Success

(***************************************************************************)
(* State machine.                                                          *)
(***************************************************************************)
Slots == { "s1" }

\* The invocations that can be in flight together when calls overlap.
Overlapping == { "s1", "s2" }

Idle ==
    [stage |-> "idle", via |-> "none", tool |-> "none", args |-> <<>>,
     diff |-> NoDiff, reqs |-> 0, request |-> NoRequest,
     resp |-> NoResponse, outcome |-> NoOutcome]

NoPaging ==
    [phase |-> "idle", tool |-> "none", coll |-> <<>>, size |-> 0,
     after |-> Missing, got |-> <<>>, calls |-> 0]

\* Either index.ts runs (pc starts at its configuration check), or the
\* descriptor modules are only imported and never bound ("standalone").
Init ==
    /\ \/ /\ pc = "checkToken"
          /\ config \in [token : BOOLEAN, domain : BOOLEAN]
          /\ resolved \in GpmModules
       \/ /\ pc = "standalone"
          /\ config = [token |-> FALSE, domain |-> FALSE]
          /\ resolved = "get-product-metafields"
    /\ idx = 1
    /\ exitCode = 0
    /\ clientCreated = FALSE
    /\ shopifyClient = [d \in Descriptors |-> "undefined"]
    /\ initCalls = [d \in Descriptors |-> 0]
    /\ registry = <<>>
    /\ inv = [s \in Overlapping |-> Idle]
    /\ paging = NoPaging

\* if (!SHOPIFY_ACCESS_TOKEN) { ...; process.exit(1); }
CheckToken ==
    /\ pc = "checkToken"
    /\ IF config.token
       THEN pc' = "checkDomain" /\ exitCode' = exitCode
       ELSE pc' = "exited" /\ exitCode' = 1
    /\ UNCHANGED <<idx, config, resolved, paging, clientCreated, shopifyClient, initCalls,
                   registry, inv>>

\* Variant: a missing domain is only reported and startup goes on.
CheckDomainWarnOnly ==
    /\ pc = "checkDomain"
    /\ pc' = "createClient"
    /\ exitCode' = exitCode
    /\ UNCHANGED <<idx, config, resolved, paging, clientCreated, shopifyClient, initCalls,
                   registry, inv>>

\* if (!MYSHOPIFY_DOMAIN) { ...; process.exit(1); }
CheckDomain ==
    /\ pc = "checkDomain"
    /\ IF config.domain
       THEN pc' = "createClient" /\ exitCode' = exitCode
       ELSE pc' = "exited" /\ exitCode' = 1
    /\ UNCHANGED <<idx, config, resolved, paging, clientCreated, shopifyClient, initCalls,
                   registry, inv>>

\* const shopifyClient = new GraphQLClient(...)
CreateClient ==
    /\ pc = "createClient"
    /\ clientCreated' = TRUE
    /\ pc' = "initialize"
    /\ idx' = 1
    /\ UNCHANGED <<config, resolved, paging, exitCode, shopifyClient, initCalls, registry, inv>>

\* The descriptor's initialize(client): shopifyClient = client.
initialize(d) ==
    /\ shopifyClient' = [shopifyClient EXCEPT ![d] = "client"]
    /\ initCalls' = [initCalls EXCEPT ![d] = @ + 1]

\* The next `X.initialize(shopifyClient);` statement of index.ts.
InitializeNext ==
    /\ pc = "initialize"
    /\ initialize(Resolve(InitOrder[idx], resolved))
    /\ IF idx < Len(InitOrder)
       THEN idx' = idx + 1 /\ pc' = pc
       ELSE idx' = 1 /\ pc' = "register"
    /\ UNCHANGED <<config, resolved, paging, exitCode, clientCreated, registry, inv>>

\* The next `server.tool(name, schema, handler)` statement of index.ts.
RegisterNext ==
    /\ pc = "register"
    /\ registry' = Append(registry, RegOrder[idx])
    /\ IF idx < Len(RegOrder)
       THEN idx' = idx + 1 /\ pc' = pc
       ELSE idx' = 1 /\ pc' = "connect"
    /\ UNCHANGED <<config, resolved, paging, exitCode, clientCreated, shopifyClient, initCalls, inv>>

\* server.connect(transport)
Connect ==
    /\ pc = "connect"
    /\ pc' = "serving"
    /\ UNCHANGED <<idx, config, resolved, paging, exitCode, clientCreated, shopifyClient,
                   initCalls, registry, inv>>

Started(via, t, in, st) ==
    [stage |-> st.stage, via |-> via, tool |-> t, args |-> in.args,
     diff |-> in.diff, reqs |-> st.reqs, request |-> st.request,
     resp |-> NoResponse, outcome |-> st.outcome]

\* The protocol runtime calls the handler registered under name t: it parses
\* the arguments with the registered schema and, if they pass, the handler
\* awaits the descriptor's execute.
RuntimeInvoke(s) ==
    /\ pc = "serving"
    /\ inv[s].stage = "idle"
    /\ \E name \in Range(registry) \cap Tools :
       \E in \in Inputs(Resolve(name, resolved)) :
         inv' = [inv EXCEPT ![s] =
          LET t == Resolve(name, resolved) IN
            IF Validate(RegisteredSchema(t), in.args)
            THEN Started("runtime", t, in,
                         ExecuteStart(t, Parse(t, in.args), in.diff,
                                      shopifyClient[t]))
            ELSE Started("runtime", t, in,
                         [stage |-> "done", reqs |-> 0, request |-> NoRequest,
                          outcome |-> InvalidParams(t)])]
    /\ UNCHANGED <<pc, idx, config, resolved, paging, exitCode, clientCreated, shopifyClient,
                   initCalls, registry>>

\* Some other importer of the descriptor module binds it: d.initialize(client).
DirectInitialize ==
    /\ pc = "standalone"
    /\ \A s \in Slots : inv[s].stage = "idle"
    /\ Cardinality({ d \in Tools : shopifyClient[d] = "client" }) < MaxDirectBinds
    /\ \E d \in Tools :
         /\ shopifyClient[d] = "undefined"
         /\ initialize(d)
    /\ UNCHANGED <<pc, idx, config, resolved, paging, exitCode, clientCreated, registry, inv>>

\* Some other importer of the descriptor module calls execute directly.
DirectExecute(s) ==
    /\ pc = "standalone"
    /\ inv[s].stage = "idle"
    /\ \E t \in Tools : \E in \in Inputs(t) :
         inv' = [inv EXCEPT ![s] =
            Started("direct", t, in,
                    ExecuteStart(t, in.args, in.diff, shopifyClient[t]))]
    /\ UNCHANGED <<pc, idx, config, resolved, paging, exitCode, clientCreated, shopifyClient,
                   initCalls, registry>>

\* The awaited request settles with r and execute runs to its end.
Respond(s) ==
    /\ inv[s].stage = "awaiting"
    /\ \E r \in Responses(inv[s].tool) :
         inv' = [inv EXCEPT ![s] =
            [@ EXCEPT !.stage = "done", !.resp = r,
                      !.outcome = ExecuteResume(inv[s].tool, r)]]
    /\ UNCHANGED <<pc, idx, config, resolved, paging, exitCode, clientCreated, shopifyClient,
                   initCalls, registry>>

\* The handler's promise has settled; the caller has its result or failure.
Reply(s) ==
    /\ inv[s].stage = "done"
    /\ inv' = [inv EXCEPT ![s] = Idle]
    /\ UNCHANGED <<pc, idx, config, resolved, paging, exitCode, clientCreated, shopifyClient,
                   initCalls, registry>>

Next ==
    \/ CheckToken
    \/ CheckDomain
    \/ CreateClient
    \/ InitializeNext
    \/ RegisterNext
    \/ Connect
    \/ \E s \in Slots : RuntimeInvoke(s)
    \/ DirectInitialize
    \/ \E s \in Slots : DirectExecute(s)
    \/ \E s \in Slots : Respond(s)
    \/ \E s \in Slots : Reply(s)

Spec == Init /\ [][Next]_vars

(***************************************************************************)
(* A caller paging through a list tool against an unchanging collection.   *)
(***************************************************************************)
\* The page-size field of a list-returning tool.
PageSizeField(t) ==
    IF t \in { "get-product-metafields", GpmPart2, "get-metaobjects" }
    THEN "limit" ELSE "first"

PageSizeConstraint(t) ==
    CHOOSE c \in DescriptorSchema(t) : c.f = PageSizeField(t)

PagingTools ==
    { "get-metafield-definitions", "get-metaobject-definitions",
      "get-metaobjects", "get-product-metafields", GpmPart2 }

\* The remote collection: its items in the remote's order.
Collections ==
    { [ i \in 1 .. k |-> [id |-> i, fields |-> <<>>] ] : k \in 0 .. MaxItems }

\* The remote connection's answer to (first, after): a cursor stands for the
\* position of the item it was issued for; no cursor (or null) means the start.
RemotePage(coll, first, after) ==
    LET start == IF after.k = "value" THEN after.n ELSE 0
        stop  == IF start + first < Len(coll) THEN start + first ELSE Len(coll)
        nodes == SubSeq(coll, start + 1, stop)
    IN  [kind |-> "data", msg |-> "", userErrors |-> <<>>, payload |-> "present",
         nodes |-> nodes,
         pageInfo |-> Some([hasNextPage |-> stop < Len(coll),
                            endCursor |-> IF Len(nodes) = 0 THEN Absent
                                          ELSE Some(stop)])]

\* The arguments of one call of the run: the fixed filter, the page size, and
\* the last end cursor where the tool's schema has a cursor field.
PagingArgs(t, size, after) ==
    LET base == Baseline(DescriptorSchema(t))
        sized == [base EXCEPT ![PageSizeField(t)] = Val(TRUE, size)]
    IN  IF "after" \in DOMAIN base THEN [sized EXCEPT !["after"] = after] ELSE sized

\* The caller picks a tool, a page size and (implicitly) the collection.
PagingStart ==
    /\ paging.phase = "idle"
    /\ \A s \in Slots : inv[s].stage = "idle"
    /\ \E t \in PagingTools, coll \in Collections, size \in 1 .. MaxPage :
         /\ shopifyClient[t] = "client"
         /\ pc = "serving" => ToolName(t) \in Range(registry)
         /\ pc \in { "serving", "standalone" }
         /\ paging' = [phase |-> "calling", tool |-> t, coll |-> coll,
                       size |-> size, after |-> Missing, got |-> <<>>,
                       calls |-> 0]
    /\ UNCHANGED <<pc, idx, config, resolved, exitCode, clientCreated,
                   shopifyClient, initCalls, registry, inv>>

\* The caller's next call, through the runtime where index.ts serves the
\* tool and directly otherwise.
PagingCall(s) ==
    /\ paging.phase = "calling"
    /\ paging.calls < MaxCalls
    /\ inv[s].stage = "idle"
    /\ LET t  == paging.tool
           in == [args |-> PagingArgs(t, paging.size, paging.after),
                  diff |-> NoDiff]
       IN  inv' = [inv EXCEPT ![s] =
             IF pc = "serving"
             THEN IF Validate(RegisteredSchema(t), in.args)
                  THEN Started("runtime", t, in,
                               ExecuteStart(t, Parse(t, in.args), in.diff,
                                            shopifyClient[t]))
                  ELSE Started("runtime", t, in,
                               [stage |-> "done", reqs |-> 0,
                                request |-> NoRequest,
                                outcome |-> InvalidParams(t)])
             ELSE Started("direct", t, in,
                          ExecuteStart(t, in.args, in.diff, shopifyClient[t]))]
    /\ paging' = [paging EXCEPT !.calls = @ + 1]
    /\ UNCHANGED <<pc, idx, config, resolved, exitCode, clientCreated,
                   shopifyClient, initCalls, registry>>

\* The remote answers the call's request from the collection; the caller
\* keeps the returned items and the returned end cursor.
PagingRespond(s) ==
    /\ paging.phase = "calling"
    /\ inv[s].stage = "awaiting"
    /\ LET v     == inv[s].request.variables
           after == IF "after" \in DOMAIN v THEN v["after"] ELSE Undefined
           r     == RemotePage(paging.coll, v["first"].n, after)
           o     == ExecuteResume(inv[s].tool, r)
           pi    == o.result.pageInfo
       IN  /\ inv' = [inv EXCEPT ![s] =
                  [@ EXCEPT !.stage = "done", !.resp = r, !.outcome = o]]
           /\ paging' = [paging EXCEPT
                  !.got = @ \o [ i \in 1 .. Len(o.result.items) |->
                                   [id |-> o.result.items[i].id,
                                    fields |-> <<>>] ],
                  !.after = IF IsPresent(pi) /\ IsPresent(pi[1].endCursor)
                            THEN Val(TRUE, pi[1].endCursor[1]) ELSE Missing,
                  !.phase = IF IsPresent(pi) /\ pi[1].hasNextPage
                            THEN "calling" ELSE "done"]
    /\ UNCHANGED <<pc, idx, config, resolved, exitCode, clientCreated,
                   shopifyClient, initCalls, registry>>

PagingNext ==
    \/ CheckToken
    \/ CheckDomain
    \/ CreateClient
    \/ InitializeNext
    \/ RegisterNext
    \/ Connect
    \/ DirectInitialize
    \/ PagingStart
    \/ \E s \in Slots : PagingCall(s)
    \/ \E s \in Slots : PagingRespond(s)
    \/ \E s \in Slots : Reply(s)

PagingSpec == Init /\ [][PagingNext]_vars

(***************************************************************************)
(* Overlapping invocations: the runtime starts a second call while the     *)
(* first awaits its response, and the responses settle in any order.       *)
(***************************************************************************)
OverlapTools == { "update-metaobject", "update-menu" }

\* The optional argument varied in the overlapping calls.
OverlapField(t) == IF t = "update-metaobject" THEN "handle" ELSE "title"

OverlapInputs(t) ==
    { [args |-> [Baseline(DescriptorSchema(t)) EXCEPT ![OverlapField(t)] = v],
       diff |-> NoDiff] :
        v \in { Missing, Val(TRUE, 0), Val(TRUE, 1) } }

OverlapResponses(t) ==
    { r \in Responses(t) :
        /\ Len(r.userErrors) <= 1
        /\ \A i \in 1 .. Len(r.nodes) : Len(r.nodes[i].fields) <= 1 }

\* The runtime calls a registered handler while other calls may be awaiting.
OverlapInvoke(s) ==
    /\ pc = "serving"
    /\ inv[s].stage = "idle"
    /\ \E t \in OverlapTools : \E in \in OverlapInputs(t) :
         /\ Validate(RegisteredSchema(t), in.args)
         /\ inv' = [inv EXCEPT ![s] =
               Started("runtime", t, in,
                       ExecuteStart(t, Parse(t, in.args), in.diff,
                                    shopifyClient[t]))]
    /\ UNCHANGED <<pc, idx, config, resolved, paging, exitCode, clientCreated,
                   shopifyClient, initCalls, registry>>

\* Variant: a response settles every awaiting call of the same tool.
OverlapRespondShared(s) ==
    /\ inv[s].stage = "awaiting"
    /\ \E r \in OverlapResponses(inv[s].tool) :
         inv' = [ o \in Overlapping |->
                    IF inv[o].stage = "awaiting" /\ inv[o].tool = inv[s].tool
                    THEN [inv[o] EXCEPT !.stage = "done", !.resp = r,
                                        !.outcome = ExecuteResume(inv[o].tool, r)]
                    ELSE inv[o] ]
    /\ UNCHANGED <<pc, idx, config, resolved, paging, exitCode, clientCreated,
                   shopifyClient, initCalls, registry>>

\* The request awaited by call s settles; execute resumes for s alone.
OverlapRespond(s) ==
    /\ inv[s].stage = "awaiting"
    /\ \E r \in OverlapResponses(inv[s].tool) :
         inv' = [inv EXCEPT ![s] =
            [@ EXCEPT !.stage = "done", !.resp = r,
                      !.outcome = ExecuteResume(inv[s].tool, r)]]
    /\ UNCHANGED <<pc, idx, config, resolved, paging, exitCode, clientCreated,
                   shopifyClient, initCalls, registry>>

OverlapNext ==
    \/ CheckToken
    \/ CheckDomain
    \/ CreateClient
    \/ InitializeNext
    \/ RegisterNext
    \/ Connect
    \/ \E s \in Overlapping : OverlapInvoke(s)
    \/ \E s \in Overlapping : OverlapRespond(s)
    \/ \E s \in Overlapping : Reply(s)

OverlapSpec == Init /\ [][OverlapNext]_vars

(***************************************************************************)
(* Properties.                                                             *)
(***************************************************************************)
Active == { s \in Slots : inv[s].stage # "idle" }
Done   == { s \in Slots : inv[s].stage = "done" }

Contains(msg, token) == \E i \in 1 .. Len(msg) : msg[i] = token

NonEmptyErrorLists(t) == SeqsUpTo(UserErrors(t), MaxErrs) \ { <<>> }

\* C1: an invocation made through the protocol runtime whose arguments break
\* a constraint of the descriptor's declared schema ends in a validation
\* failure and has issued no remote request.
C1_InvalidInputNoRequest ==
    \A s \in Active :
        (inv[s].via = "runtime"
            /\ ~Validate(DescriptorSchema(inv[s].tool), inv[s].args))
        => /\ inv[s].stage = "done"
           /\ inv[s].outcome.kind = "validation"
           /\ inv[s].reqs = 0
           /\ ~inv[s].request.sent

C1_Witness ==
    \E s \in Done :
        /\ inv[s].via = "runtime"
        /\ inv[s].tool = "register-translations"
        /\ ~Validate(DescriptorSchema(inv[s].tool), inv[s].args)
        /\ inv[s].outcome.kind = "validation"

\* C2: execute called on a descriptor that initialize has not bound fails
\* with exactly the 'GraphQL client not initialized' message and issues no
\* remote request, for every descriptor.
C2_UnboundFailsFast ==
    \A s \in Active :
        shopifyClient[inv[s].tool] = "undefined"
        => /\ inv[s].stage = "done"
           /\ inv[s].outcome = Failure(<<NotInitialized>>)
           /\ inv[s].reqs = 0

\* C3: once index.ts is serving, every descriptor defined in the repository
\* has had initialize called exactly once, is bound, and is registered.
C3_AllBoundAndRegistered ==
    pc = "serving"
    => \A d \in Descriptors \ (GpmModules \ { resolved }) :
          /\ initCalls[d] = 1
          /\ shopifyClient[d] = "client"
          /\ ToolName(d) \in Range(registry)

\* C4: an invocation issues at most one remote request on every path; one
\* that failed before its request issued none, and one whose request ended
\* in a user error or a transport failure issued that one request only.
C4_AtMostOneRequest ==
    \A s \in Active :
        /\ inv[s].reqs <= 1
        /\ inv[s].stage = "awaiting" => inv[s].reqs = 1
        /\ (inv[s].stage = "done" /\ inv[s].resp.kind = "none") => inv[s].reqs = 0
        /\ (inv[s].stage = "done" /\ inv[s].resp.kind # "none") => inv[s].reqs = 1

C4_Witness ==
    \E s \in Done :
        /\ inv[s].tool = "update-metaobject-definition"
        /\ IsPresent(inv[s].request.fieldDefinitions)
        /\ Len(inv[s].request.fieldDefinitions[1]) >= 2
        /\ inv[s].resp.kind = "transport"
        /\ inv[s].outcome.kind = "failure"
        /\ inv[s].reqs = 1

\* C5: when the response's user-error list is not empty the invocation fails
\* and its message contains every error's message and every code the
\* response supplies.
C5_AllMessagesAndCodes ==
    \A s \in Done :
        (inv[s].resp.kind = "data" /\ Len(inv[s].resp.userErrors) > 0)
        => /\ inv[s].outcome.kind = "failure"
           /\ \A i \in 1 .. Len(inv[s].resp.userErrors) :
                LET e == inv[s].resp.userErrors[i]
                IN  /\ Contains(inv[s].outcome.msg, e.message)
                    /\ IsPresent(e.code) => Contains(inv[s].outcome.msg, e.code[1])

\* The response reports no user error and carries no usable payload.
EmptySuccess(r) ==
    r.kind = "data" /\ r.userErrors = <<>> /\ r.payload # "present"

\* C6: a mutation whose response has no user errors and no payload (null,
\* absent, or an empty list) fails, with a message no user-error failure of
\* the same tool can have.
C6_EmptyPayloadDistinct ==
    \A s \in Done :
        (inv[s].tool \in Mutations /\ EmptySuccess(inv[s].resp))
        => /\ inv[s].outcome.kind = "failure"
           /\ \A ue \in NonEmptyErrorLists(inv[s].tool) :
                inv[s].outcome.msg # UserErrorMessage(inv[s].tool, ue)

C6_Witness ==
    \E s \in Done :
        /\ inv[s].tool = "update-product-metafield"
        /\ inv[s].resp.kind = "data"
        /\ inv[s].resp.userErrors = <<>>
        /\ inv[s].resp.payload = "empty"
        /\ inv[s].outcome.kind = "failure"

\* C7: a finished mutation reports success only if its request completed
\* with no user errors and a payload; in every other case it ended in a
\* failure.
C7_NoSwallowedFailure ==
    \A s \in Done :
        inv[s].tool \in Mutations
        => LET ok == /\ inv[s].resp.kind = "data"
                     /\ inv[s].resp.userErrors = <<>>
                     /\ inv[s].resp.payload = "present"
           IN  /\ inv[s].outcome.kind = "success" => ok
               /\ ~ok => inv[s].outcome.kind \in { "failure", "validation" }

C7_Witness ==
    \E s \in Done :
        /\ inv[s].tool = "create-product"
        /\ inv[s].resp.kind = "data"
        /\ inv[s].resp.payload = "null"
        /\ inv[s].resp.userErrors = <<>>
        /\ inv[s].outcome.kind = "failure"

\* A failure message of the shape the user-error branch produces.
IsUserErrorReport(t, msg) ==
    /\ Len(msg) >= 2
    /\ msg[1] = OuterPrefix(t)
    /\ msg[2] = UserErrorPrefix(t)

\* C8: a settled invocation has exactly one outcome kind; it is success only
\* for a complete response, a user error is reported as a user error, and a
\* transport failure or empty success is never reported as one.
C8_DisjointOutcomes ==
    \A s \in Active :
        LET o == inv[s].outcome
            r == inv[s].resp
            t == inv[s].tool
        IN  /\ inv[s].stage = "awaiting" => o.kind = "none"
            /\ inv[s].stage = "done" =>
                 /\ o.kind \in { "success", "validation", "failure" }
                 /\ o.kind = "validation" => (r.kind = "none" /\ inv[s].reqs = 0)
                 /\ o.kind = "success" =>
                        (r.kind = "data" /\ r.userErrors = <<>>)
                 /\ (r.kind = "data" /\ r.userErrors # <<>>) =>
                        (o.kind = "failure" /\ IsUserErrorReport(t, o.msg))
                 /\ (r.kind = "transport"
                        \/ (EmptySuccess(r) /\ o.kind # "success")) =>
                        (o.kind = "failure" /\ ~IsUserErrorReport(t, o.msg))

C8_Witness ==
    \E s \in Done :
        /\ inv[s].tool = "create-file"
        /\ Len(inv[s].resp.userErrors) = 2
        /\ IsUserErrorReport(inv[s].tool, inv[s].outcome.msg)

TagCount(e) ==
    Cardinality({ tag \in { "update", "create", "delete" } : IsPresent(e[tag]) })

\* C9: every entry of the fieldDefinitions list update-metaobject-definition
\* sends carries exactly one of the tags update, create, delete, and the list
\* goes out in one request.
C9_ExactlyOneTag ==
    \A s \in Active :
        (inv[s].tool = "update-metaobject-definition" /\ inv[s].request.sent)
        => /\ inv[s].reqs = 1
           /\ IsPresent(inv[s].request.fieldDefinitions) =>
                \A i \in 1 .. Len(inv[s].request.fieldDefinitions[1]) :
                    TagCount(inv[s].request.fieldDefinitions[1][i]) = 1

C9_Witness ==
    \E s \in Active :
        /\ inv[s].tool = "update-metaobject-definition"
        /\ IsPresent(inv[s].request.fieldDefinitions)
        /\ \A tag \in { "update", "create", "delete" } :
             \E i \in 1 .. Len(inv[s].request.fieldDefinitions[1]) :
                 IsPresent(inv[s].request.fieldDefinitions[1][i][tag])

ListOf(optList) == IF IsPresent(optList) THEN optList[1] ELSE <<>>

\* C10: the fieldDefinitions list sent is the caller's three lists in the
\* order update, create, delete, one entry per element in caller order,
\* nothing merged or dropped; with nothing in any list the variable is
\* omitted.
C10_DiffForwardedVerbatim ==
    \A s \in Active :
        (inv[s].tool = "update-metaobject-definition" /\ inv[s].request.sent)
        => LET u  == ListOf(inv[s].diff.toUpdate)
               c  == ListOf(inv[s].diff.toCreate)
               d  == ListOf(inv[s].diff.toDelete)
               fd == inv[s].request.fieldDefinitions
           IN  IF Len(u) + Len(c) + Len(d) = 0
               THEN fd = Absent
               ELSE /\ IsPresent(fd)
                    /\ Len(fd[1]) = Len(u) + Len(c) + Len(d)
                    /\ \A i \in 1 .. Len(u) : fd[1][i].update = Some(u[i])
                    /\ \A i \in 1 .. Len(c) : fd[1][Len(u) + i].create = Some(c[i])
                    /\ \A i \in 1 .. Len(d) :
                         fd[1][Len(u) + Len(c) + i].delete = Some([key |-> d[i]])

C10_Witness ==
    \E s \in Active :
        /\ inv[s].tool = "update-metaobject-definition"
        /\ IsPresent(inv[s].request.fieldDefinitions)
        /\ Len(inv[s].request.fieldDefinitions[1]) = 3
        /\ \A i \in 1 .. 3 :
             LET e == inv[s].request.fieldDefinitions[1][i]
             IN  \E tag \in { "update", "create", "delete" } :
                     IsPresent(e[tag]) /\ e[tag][1].key = "k1"

CascadeFlag(t) ==
    IF t = "delete-metafield-definition"
    THEN "deleteAllAssociatedMetafields"
    ELSE "deleteAllAssociatedMetaobjects"

\* C11: the two definition-delete tools send the cascade flag as true only
\* when the caller's input set it to true, and leave it out of the request
\* when the caller left it out.
C11_CascadeOnlyOnRequest ==
    \A s \in Active :
        (inv[s].tool \in { "delete-metafield-definition",
                           "delete-metaobject-definition" }
            /\ inv[s].request.sent)
        => LET flag == inv[s].request.variables[CascadeFlag(inv[s].tool)]
               arg  == inv[s].args[CascadeFlag(inv[s].tool)]
           IN  /\ flag = Value(1) => arg = Val(TRUE, 1)
               /\ ~arg.p => flag = Undefined

C11_Witness ==
    \E s \in Active :
        /\ inv[s].tool = "delete-metaobject-definition"
        /\ inv[s].request.sent
        /\ ~inv[s].args["deleteAllAssociatedMetaobjects"].p
        /\ inv[s].request.variables["deleteAllAssociatedMetaobjects"] = Undefined

VariableOf(t, f) ==
    IF t \in { "get-product-metafields", GpmPart2, "get-metaobjects" } /\ f = "limit"
    THEN "first"
    ELSE IF t \in GpmModules /\ f = "productId" THEN "id"
    ELSE IF t \in { "create-product-metafield", "update-product-metafield" }
    THEN IF f = "productId" THEN "metafields[0].ownerId" ELSE "metafields[0]." \o f
    ELSE f

\* C14: an optional input field that the caller did not supply is absent
\* from the request variables, and is not sent as null.  Fields with a
\* declared default and page sizes (which every list query requires as
\* `first`) are left aside.
C14_OmitIfAbsent ==
    \A s \in Active :
        inv[s].request.sent
        => \A c \in DescriptorSchema(inv[s].tool) :
              (/\ c.opt
               /\ ~HasDefault(inv[s].tool, c.f)
               /\ ~inv[s].args[c.f].p
               /\ VariableOf(inv[s].tool, c.f) \in VariableNames(inv[s].tool)
               /\ c.kind # "num")
              => inv[s].request.variables[VariableOf(inv[s].tool, c.f)] = Undefined

\* C15: a list-returning tool called through the protocol runtime with a page
\* size below 1, or above the maximum its schema declares, ends in a
\* validation failure and issues no remote request.
C15_PageSizeBounds ==
    \A s \in Active :
        (inv[s].tool \in Queries /\ inv[s].via = "runtime")
        => LET size == inv[s].args[PageSizeField(inv[s].tool)]
               c    == PageSizeConstraint(inv[s].tool)
           IN  (size.p /\ (size.n < 1 \/ (c.kind = "num" /\ size.n > c.hi)))
               => /\ inv[s].stage = "done"
                  /\ inv[s].outcome.kind = "validation"
                  /\ inv[s].reqs = 0

\* C16: every list-returning tool accepts an optional forward cursor, forwards
\* a supplied one to the remote query, and on success returns the page's
\* items in remote order together with the page's end cursor and has-more flag.
C16_CursorAndPageInfo ==
    \A s \in Active :
        inv[s].tool \in Queries
        => /\ "after" \in Fields(DescriptorSchema(inv[s].tool))
           /\ (inv[s].request.sent /\ Truthy(inv[s].args["after"]))
                => inv[s].request.variables["after"] = Value(inv[s].args["after"].n)
           /\ inv[s].outcome.kind = "success"
                => /\ Len(inv[s].outcome.result.items) = Len(inv[s].resp.nodes)
                   /\ \A i \in 1 .. Len(inv[s].resp.nodes) :
                        inv[s].outcome.result.items[i].id = inv[s].resp.nodes[i].id
                   /\ IsPresent(inv[s].outcome.result.pageInfo)
                   /\ inv[s].outcome.result.pageInfo = inv[s].resp.pageInfo

IsPrefix(p, q) == Len(p) <= Len(q) /\ SubSeq(q, 1, Len(p)) = p

\* C17: following each returned end cursor through a paginated list tool
\* never collects an item twice or out of order, and when the tool reports no
\* further page the collected items are exactly the remote collection.
C17_PagesConcatenate ==
    paging.phase # "idle"
    => /\ IsPrefix(paging.got, paging.coll)
       /\ paging.phase = "done" => paging.got = paging.coll

Keys(fields) == { fields[i].key : i \in 1 .. Len(fields) }

LastIndex(fields, k) ==
    CHOOSE i \in 1 .. Len(fields) :
        /\ fields[i].key = k
        /\ \A j \in (i + 1) .. Len(fields) : fields[j].key # k

\* C18: every metaobject that get-metaobjects, create-metaobject or
\* update-metaobject returns has fieldsArray equal to the remote field list, in
\* order, and fields holding an entry for exactly the keys of that list, each
\* with the value and type of the key's last occurrence.
C18_BothRepresentations ==
    \A s \in Done :
        (inv[s].tool \in MetaobjectTools /\ inv[s].outcome.kind = "success")
        => /\ Len(inv[s].outcome.result.items) = Len(inv[s].resp.nodes)
           /\ \A i \in 1 .. Len(inv[s].resp.nodes) :
                LET item   == inv[s].outcome.result.items[i]
                    remote == inv[s].resp.nodes[i].fields
                IN  /\ item.fieldsArray = remote
                    /\ DOMAIN item.fields = Keys(remote)
                    /\ \A k \in Keys(remote) \cap DOMAIN item.fields :
                         LET f == remote[LastIndex(remote, k)]
                         IN  item.fields[k] = [value |-> f.value, type |-> f.type]

StatusArg == "capabilities.publishable.status"
StatusVar == "metaobject.capabilities.publishable.status"

\* C19: a create-metaobject or update-metaobject request carries a publishable
\* status only when the caller supplied capabilities.publishable.status; for a
\* call made through the protocol runtime that status is ACTIVE or DRAFT; and
\* an update-metaobject call that supplies no capabilities sends none.
C19_PublishOnlyOnRequest ==
    \A s \in Active :
        (inv[s].tool \in { "create-metaobject", "update-metaobject" }
            /\ inv[s].request.sent)
        => LET vars_ == inv[s].request.variables
               a     == inv[s].args
           IN  /\ vars_[StatusVar] # Undefined
                    => /\ a["capabilities"].p
                       /\ a[StatusArg].p
                       /\ vars_[StatusVar] = Value(a[StatusArg].n)
               /\ vars_[StatusVar] # Null
               /\ (inv[s].via = "runtime" /\ vars_[StatusVar] # Undefined)
                    => vars_[StatusVar] \in { Value(1), Value(2) }
               /\ (inv[s].tool = "update-metaobject" /\ ~a["capabilities"].p)
                    => /\ vars_["metaobject.capabilities"] = Undefined
                       /\ vars_[StatusVar] = Undefined

C19_Witness ==
    \E s \in Active :
        /\ inv[s].tool = "update-metaobject"
        /\ inv[s].via = "runtime"
        /\ inv[s].request.sent
        /\ ~inv[s].args["capabilities"].p
        /\ inv[s].request.variables["metaobject.handle"] # Undefined
        /\ inv[s].request.variables["metaobject.capabilities"] = Undefined

\* C20: for every registered tool the schema handed to the protocol runtime
\* is the descriptor's declared schema, so that an argument the descriptor
\* declares and the caller supplies is the argument execute reads: an
\* update-page call's isPublished reaches its request.
C20_RegisteredIsDeclared ==
    /\ \A name \in Range(registry) \cap Tools :
         RegisteredSchema(Resolve(name, resolved)) =
            DescriptorSchema(Resolve(name, resolved))
    /\ \A s \in Active :
         (inv[s].via = "runtime" /\ inv[s].tool = "update-page"
            /\ inv[s].request.sent)
         => inv[s].request.variables["page.isPublished"] =
               IfDefined(inv[s].args["isPublished"])

InFlight == { s \in Overlapping : inv[s].stage # "idle" }

\* What execute yields for a call from its own input and the bound client.
OwnStart(s) ==
    ExecuteStart(inv[s].tool, Parse(inv[s].tool, inv[s].args), inv[s].diff,
                 shopifyClient[inv[s].tool])

\* C22: with several invocations in flight and responses settling in any
\* order, each invocation's request is the one its own input yields and its
\* result the one its own response yields; a step of one invocation leaves
\* every other invocation as it was, and no step taken while serving writes a
\* descriptor's bound client.
C22_Isolation ==
    [][ /\ pc = "serving" => shopifyClient' = shopifyClient
        /\ \A s \in Overlapping :
             inv'[s] # inv[s]
             => /\ \A o \in Overlapping \ { s } : inv'[o] = inv[o]
                /\ inv'[s].stage = "awaiting"
                     => inv'[s].request = OwnStart(s)'.request
                /\ (inv'[s].stage = "done" /\ inv'[s].resp # NoResponse)
                     => /\ inv'[s].request = inv[s].request
                        /\ inv'[s].outcome =
                              ExecuteResume(inv'[s].tool, inv'[s].resp) ]_vars

C22_Witness ==
    /\ inv["s1"].stage = "awaiting"
    /\ inv["s2"].stage = "done"
    /\ inv["s2"].resp # NoResponse
    /\ inv["s1"].tool = inv["s2"].tool
    /\ inv["s1"].args # inv["s2"].args

Unstarted ==
    /\ ~clientCreated
    /\ \A d \in Descriptors : initCalls[d] = 0 /\ shopifyClient[d] = "undefined"
    /\ registry = <<>>
    /\ \A s \in Overlapping : inv[s].stage = "idle"

RegisteredDescriptors == { Resolve(n, resolved) : n \in Range(registry) \cap Tools }

C24_NoPartialSuccess ==
    \A s \in Done :
        (inv[s].tool \in BatchTools /\ inv[s].via = "runtime"
            /\ inv[s].outcome.kind = "success")
        => Len(inv[s].outcome.result.items) >= inv[s].args[BatchField(inv[s].tool)].n

\* C25: update-menu sends one request whose items list is one entry per
\* itemsToUpdate element with its id and no remove flag, then one entry per
\* itemsToAdd element with no id, then one entry per itemsToRemove id with
\* that id and remove: true, each in caller order; with all three lists
\* absent or empty the items variable is omitted.
C25_MenuItemsBatched ==
    \A s \in Active :
        (inv[s].tool = "update-menu" /\ inv[s].request.sent)
        => LET u  == ListOf(inv[s].diff.toUpdate)
               a  == ListOf(inv[s].diff.toCreate)
               r  == ListOf(inv[s].diff.toDelete)
               it == inv[s].request.items
           IN  /\ inv[s].reqs = 1
               /\ IF Len(u) + Len(a) + Len(r) = 0
                  THEN it = Absent
                  ELSE /\ IsPresent(it)
                       /\ Len(it[1]) = Len(u) + Len(a) + Len(r)
                       /\ \A i \in 1 .. Len(u) :
                            /\ it[1][i].id = Some(u[i].id)
                            /\ it[1][i].title = Some(u[i].title)
                            /\ it[1][i].remove = Absent
                       /\ \A i \in 1 .. Len(a) :
                            /\ it[1][Len(u) + i].id = Absent
                            /\ it[1][Len(u) + i].title = Some(a[i].title)
                            /\ it[1][Len(u) + i].remove = Absent
                       /\ \A i \in 1 .. Len(r) :
                            /\ it[1][Len(u) + Len(a) + i].id = Some(r[i])
                            /\ it[1][Len(u) + Len(a) + i].remove = Some(TRUE)

C25_Witness ==
    \E s \in Active :
        /\ inv[s].tool = "update-menu"
        /\ inv[s].request.sent
        /\ IsPresent(inv[s].request.items)
        /\ Len(ListOf(inv[s].diff.toUpdate)) = 2
        /\ Len(ListOf(inv[s].diff.toCreate)) = 1
        /\ Len(ListOf(inv[s].diff.toDelete)) = 1
        /\ inv[s].request.items[1][4].remove = Some(TRUE)

\* Two optional item lists have the same shape at every depth, with the same
\* title, url and resourceId at every position.
RECURSIVE SameTree(_, _)
SameTree(x, y) ==
    /\ IsPresent(x) = IsPresent(y)
    /\ IsPresent(x)
         => /\ Len(x[1]) = Len(y[1])
            /\ \A i \in 1 .. Len(x[1]) :
                 /\ x[1][i].title = y[1][i].title
                 /\ x[1][i].url = y[1][i].url
                 /\ x[1][i].resourceId = y[1][i].resourceId
                 /\ SameTree(x[1][i].items, y[1][i].items)

\* How many levels of items an optional item list nests.
RECURSIVE Depth(_)
Depth(x) ==
    IF ~IsPresent(x) \/ Len(x[1]) = 0 THEN 0
    ELSE 1 + Depth(x[1][1].items)

\* C26: create-menu's item transformation ends on every finite menu tree with
\* a tree of the same shape at every depth, siblings in the caller's order,
\* each with the caller's title, url and resourceId, and the whole tree goes
\* out in one request.
C26_MenuTreePreserved ==
    \A s \in Active :
        (inv[s].tool = "create-menu" /\ inv[s].request.sent)
        => /\ inv[s].reqs = 1
           /\ SameTree(inv[s].request.items, inv[s].diff.toCreate)

C26_Witness ==
    \E s \in Active :
        /\ inv[s].tool = "create-menu"
        /\ inv[s].request.sent
        /\ Depth(inv[s].diff.toCreate) >= 3
        /\ Depth(inv[s].request.items) >= 3
        /\ Len(inv[s].request.items[1]) >= 2
        /\ inv[s].request.items[1][2].title = <<2>>
        /\ inv[s].request.items[1][1].items[1][1].items[1][1].title = <<1, 1, 1>>

\* The argument of update-page that execute copies into request variable v.
PageArgumentOf(v) ==
    CASE v = "id" -> "pageId"
      [] v = "page.title" -> "title"
      [] v = "page.body" -> "body"
      [] v = "page.isPublished" -> "isPublished"

\* C27: when update-page is invoked through the registry, a supplied publish
\* flag is carried by the outgoing page input, and every argument the
\* registered schema accepts and the caller supplied is the source of some
\* request variable that carries its value.
C27_UpdatePageForwardsAccepted ==
    \A s \in Active :
        (inv[s].tool = "update-page" /\ inv[s].via = "runtime"
            /\ inv[s].request.sent)
        => /\ inv[s].args["published"].p
                => inv[s].request.variables["page.isPublished"] =
                      Value(inv[s].args["published"].n)
           /\ \A f \in Fields(RegisteredSchema("update-page")) :
                inv[s].args[f].p
                => \E v \in VariableNames("update-page") :
                      /\ PageArgumentOf(v) = f
                      /\ inv[s].request.variables[v] = Value(inv[s].args[f].n)

Pair(arg, var) == [arg |-> arg, var |-> var]

\* The optional scalar arguments of the create and update tools, each with the
\* request variable execute copies it into.
OptionalForwards(t) ==
    CASE t = "create-collection" ->
            { Pair("descriptionHtml", "input.descriptionHtml"),
              Pair("handle", "input.handle") }
      [] t \in { "create-metaobject", "update-metaobject" } ->
            { Pair("handle", "metaobject.handle") }
      [] t = "create-metafield-definition" ->
            { Pair("description", "definition.description"),
              Pair("pin", "definition.pin") }
      [] t = "update-metafield-definition" ->
            { Pair("name", "definition.name"),
              Pair("description", "definition.description"),
              Pair("pin", "definition.pin") }
      [] t \in { "create-metaobject-definition", "update-metaobject-definition" } ->
            { Pair("name", "definition.name"),
              Pair("description", "definition.description") }
      [] t = "update-page" ->
            { Pair("title", "page.title"), Pair("body", "page.body") }
      [] OTHER -> {}

\* C28: an optional field the caller supplied is forwarded in the request with
\* the caller's value, also when that value is the empty string or false.
C28_SuppliedIsForwarded ==
    \A s \in Active :
        inv[s].request.sent
        => \A p \in OptionalForwards(inv[s].tool) :
              inv[s].args[p.arg].p
              => inv[s].request.variables[p.var] = Value(inv[s].args[p.arg].n)

MetaobjectParts == { "handle", "fields", "capabilities" }

\* C29: on a bound descriptor, update-metaobject called with no or empty
\* handle, no or empty fields and no or empty capabilities fails with the
\* 'No fields provided to update' failure and sends no request; otherwise its
\* request carries exactly the non-empty ones among handle, fields and
\* capabilities.
C29_NothingToUpdate ==
    \A s \in Active :
        (inv[s].tool = "update-metaobject"
            /\ shopifyClient["update-metaobject"] = "client"
            /\ inv[s].outcome.kind # "validation")
        => IF \A part \in MetaobjectParts : ~Truthy(inv[s].args[part])
           THEN /\ inv[s].stage = "done"
                /\ inv[s].outcome.kind = "failure"
                /\ Contains(inv[s].outcome.msg, NoFieldsProvided)
                /\ ~inv[s].request.sent
                /\ inv[s].reqs = 0
           ELSE /\ inv[s].request.sent
                /\ \A part \in MetaobjectParts :
                     inv[s].request.variables["metaobject." \o part] =
                        IF Truthy(inv[s].args[part])
                        THEN Value(inv[s].args[part].n)
                        ELSE Undefined

C29_Witness ==
    \E s \in Done :
        /\ inv[s].tool = "update-metaobject"
        /\ inv[s].via = "runtime"
        /\ inv[s].args["handle"] = Val(TRUE, 0)
        /\ inv[s].args["fields"] = Val(TRUE, 0)
        /\ ~inv[s].args["capabilities"].p
        /\ Contains(inv[s].outcome.msg, NoFieldsProvided)
        /\ ~inv[s].request.sent

\* C30: a mutation whose response has a non-empty user-error list and no
\* payload (null, absent or an empty list) reports the user-error failure,
\* with every remote message, and not the empty-payload failure.
C30_UserErrorsBeforePayload ==
    \A s \in Done :
        (inv[s].tool \in Mutations
            /\ inv[s].resp.kind = "data"
            /\ inv[s].resp.userErrors # <<>>
            /\ PayloadMissing(inv[s].tool, inv[s].resp.payload))
        => /\ inv[s].outcome.kind = "failure"
           /\ IsUserErrorReport(inv[s].tool, inv[s].outcome.msg)
           /\ \A i \in 1 .. Len(inv[s].resp.userErrors) :
                Contains(inv[s].outcome.msg, inv[s].resp.userErrors[i].message)
           /\ ~Contains(inv[s].outcome.msg, EmptyPayloadMessage(inv[s].tool))

C30_Witness ==
    \E s \in Done :
        /\ inv[s].tool = "delete-product"
        /\ inv[s].resp.kind = "data"
        /\ Len(inv[s].resp.userErrors) = 2
        /\ inv[s].resp.payload = "null"
        /\ IsUserErrorReport(inv[s].tool, inv[s].outcome.msg)

====
